---------------------------- MODULE Spec2Model ----------------------------
(***************************************************************************)
(* A model of src/binding.c, the bridge between a single-threaded script   *)
(* host and the xdiff comparison engine: the options codec, the async      *)
(* diff/merge requests (submit, worker, completion) and the synchronous    *)
(* diffSync/mergeSync calls.                                               *)
(***************************************************************************)
EXTENDS Integers, Sequences, FiniteSets, TLC

VARIABLES
  regime,  \* what is explored: "one" call at a time over all the inputs, or
           \* "many" overlapping requests over a few inputs
  codec,   \* the last use of the options codec: its input and its output
  mem,     \* the host's memory: the bytes the input views look at
  tasks,   \* the async requests (bare_xdiff_request_t), by slot
  sync,    \* the last synchronous call: its arguments and its outcome
  shutdown, \* the environment: "running", shutdown "requested", or "complete"
  sink     \* a diff output buffer and the sink calls made on it

vars == <<regime, codec, mem, tasks, sync, shutdown, sink>>

(***************************************************************************)
(* Bounds of the exploration.                                              *)
(***************************************************************************)
\* How many fields of a configuration object are set at once.
MaxFields == 1
\* How many async requests are outstanding together.
MaxTasks == 2
\* The largest byte offset of an input view in its backing store.
MaxOff == 1
\* The largest length of an input view.
MaxLen == 1
\* How many calls of the sink one output buffer sees.
MaxCalls == 3

(***************************************************************************)
(* Host values.  A value is a record: its runtime type and its payload.    *)
(* A string is the sequence of its characters; "NUL" is the character      *)
(* U+0000.  A number is sign, magnitude k * 2^30 + r, and whether it has a *)
(* fractional part; or NaN; or an infinity.                                *)
(***************************************************************************)
Two30 == 2^30
INT_MAX == (Two30 - 1) + Two30
INT_MIN == (-Two30) - Two30

NoNum == [cls |-> "fin", neg |-> FALSE, k |-> 0, r |-> 0, frac |-> FALSE]
Fin(neg, k, r, frac) == [cls |-> "fin", neg |-> neg, k |-> k, r |-> r, frac |-> frac]
NaN == [cls |-> "nan", neg |-> FALSE, k |-> 0, r |-> 0, frac |-> FALSE]
Inf(neg) == [cls |-> "inf", neg |-> neg, k |-> 0, r |-> 0, frac |-> FALSE]

JsUndefined == [type |-> "undefined", b |-> FALSE, n |-> NoNum, s |-> <<>>]
JsNull == [type |-> "null", b |-> FALSE, n |-> NoNum, s |-> <<>>]
JsBool(b) == [type |-> "boolean", b |-> b, n |-> NoNum, s |-> <<>>]
JsNum(n) == [type |-> "number", b |-> FALSE, n |-> n, s |-> <<>>]
JsStr(s) == [type |-> "string", b |-> FALSE, n |-> NoNum, s |-> s]
JsObject == [type |-> "object", b |-> FALSE, n |-> NoNum, s |-> <<>>]
\* A property whose read fails (js_get_named_property returns non-zero).
JsUnreadable == [type |-> "unreadable", b |-> FALSE, n |-> NoNum, s |-> <<>>]

\* The string literals of the source, character by character.
S_patience == <<"p", "a", "t", "i", "e", "n", "c", "e">>
S_histogram == <<"h", "i", "s", "t", "o", "g", "r", "a", "m">>
S_eager == <<"e", "a", "g", "e", "r">>
S_zealous == <<"z", "e", "a", "l", "o", "u", "s">>
S_zealous_alnum == S_zealous \o <<"_", "a", "l", "n", "u", "m">>
S_ours == <<"o", "u", "r", "s">>
S_theirs == <<"t", "h", "e", "i", "r", "s">>
S_union == <<"u", "n", "i", "o", "n">>
S_diff3 == <<"d", "i", "f", "f", "3">>
S_zealous_diff3 == S_zealous \o <<"_">> \o S_diff3
S_minimal == <<"m", "i", "n", "i", "m", "a", "l">>

Literals ==
  {S_patience, S_histogram, S_eager, S_zealous, S_zealous_alnum, S_ours,
   S_theirs, S_union, S_diff3, S_zealous_diff3}

\* The strings tried: the literals, each literal followed by U+0000 and one
\* more character, and strings that are no literal.
SampleStrings ==
  Literals
    \cup {l \o <<"NUL", "x">> : l \in Literals}
    \cup {<<>>, S_minimal, <<"P", "a", "t", "i", "e", "n", "c", "e">>,
          <<"z", "e", "a", "l">>, <<"NUL">>}

\* The numbers tried: 0, 1, 3, 7, -1, 0.5, 7.5, -0.5, 2^31 - 1, 2^31,
\* 2^32 + 5, -(2^32 - 5), -(2^31), NaN and the infinities.
SampleNumbers ==
  {Fin(FALSE, 0, 0, FALSE), Fin(FALSE, 0, 1, FALSE), Fin(FALSE, 0, 3, FALSE),
   Fin(FALSE, 0, 7, FALSE), Fin(TRUE, 0, 1, FALSE), Fin(FALSE, 0, 0, TRUE),
   Fin(FALSE, 0, 7, TRUE), Fin(TRUE, 0, 0, TRUE),
   Fin(FALSE, 1, Two30 - 1, FALSE), Fin(FALSE, 2, 0, FALSE),
   Fin(FALSE, 4, 5, FALSE), Fin(TRUE, 3, Two30 - 5, FALSE),
   Fin(TRUE, 2, 0, FALSE), NaN, Inf(FALSE), Inf(TRUE)}

SampleValues ==
  {JsUndefined, JsNull, JsObject, JsUnreadable, JsBool(TRUE), JsBool(FALSE)}
    \cup {JsNum(n) : n \in SampleNumbers}
    \cup {JsStr(s) : s \in SampleStrings}

\* The keys the codec reads, and one it does not.
DiffKeys ==
  {"ignoreWhitespace", "ignoreWhitespaceChange", "ignoreWhitespaceAtEol",
   "ignoreBlankLines", "algorithm"}
MergeKeys == {"level", "favor", "style", "markerSize"}
Keys == DiffKeys \cup MergeKeys \cup {"unknown"}

NoProps == [key \in Keys |-> JsUndefined]

\* A configuration value: a host value, with its properties when it is an
\* object (a property that is not set reads as undefined).
Config(type, props) == [type |-> type, props |-> props]

RECURSIVE PropsWith(_)
PropsWith(n) ==
  IF n = 0 THEN {NoProps}
  ELSE LET less == PropsWith(n - 1)
       IN  less \cup {[p EXCEPT ![key] = v] :
                        p \in less, key \in Keys, v \in SampleValues}

ConfigObjects(n) == {Config("object", p) : p \in PropsWith(n)}
PlainConfigs ==
  {Config("undefined", NoProps), Config("null", NoProps),
   Config("number", NoProps), Config("string", NoProps)}
AllConfigs == PlainConfigs \cup ConfigObjects(MaxFields)

(***************************************************************************)
(* The host accessors the codec calls.                                     *)
(***************************************************************************)
\* js_get_named_property: whether the read succeeded, and the value read.
js_get_named_property(options, key) ==
  LET v == options.props[key]
  IN  [ok |-> v.type # "unreadable", value |-> v]

\* js_get_value_string_utf8 fills a buffer of length + 1 bytes; strcmp reads
\* it as a C string, which ends at its first zero byte.
RECURSIVE CString(_)
CString(s) ==
  IF s = <<>> \/ Head(s) = "NUL" THEN <<>>
  ELSE <<Head(s)>> \o CString(Tail(s))

strcmp_eq(s, literal) == CString(s) = literal

\* The number truncated toward zero, when that is an int32.
InInt32Range(n) ==
  /\ n.cls = "fin"
  /\ \/ n.k < 2
     \/ n.neg /\ n.k = 2 /\ n.r = 0
Truncated(n) ==
  IF n.neg THEN ((-n.k) * Two30) - n.r ELSE n.k * Two30 + n.r
\* The number modulo 2^32, as a signed 32-bit integer.
Wrapped(n) ==
  LET km == n.k % 4
      pos == IF km < 2 THEN km * Two30 + n.r ELSE (km - 4) * Two30 + n.r
  IN  IF ~n.neg THEN pos
      ELSE IF pos = INT_MIN THEN INT_MIN ELSE -pos

\* js_get_value_int32: the int32 a number is read as.  A number in the int32
\* range is truncated.  Outside it the accessor converts a double that no
\* int32 holds, and a build yields the value modulo 2^32, the smallest int32
\* or the nearest int32.
js_get_value_int32(n) ==
  IF InInt32Range(n) THEN {Truncated(n)}
  ELSE IF n.cls = "nan" THEN {0, INT_MIN}
  ELSE IF n.cls = "inf" THEN {0, INT_MIN, IF n.neg THEN INT_MIN ELSE INT_MAX}
  ELSE {Wrapped(n), INT_MIN, IF n.neg THEN INT_MIN ELSE INT_MAX}

(***************************************************************************)
(* The options codec.                                                      *)
(***************************************************************************)
XDL_MERGE_MINIMAL == 0
XDL_MERGE_EAGER == 1
XDL_MERGE_ZEALOUS == 2
XDL_MERGE_ZEALOUS_ALNUM == 3
XDL_MERGE_FAVOR_OURS == 1
XDL_MERGE_FAVOR_THEIRS == 2
XDL_MERGE_FAVOR_UNION == 3
XDL_MERGE_DIFF3 == 1
XDL_MERGE_ZEALOUS_DIFF3 == 2
DefaultMarkerSize == 7

\* One boolean field of parse_diff_options: the flag, when the property is
\* read, is a boolean and is true.
BoolFlag(options, key, flag) ==
  LET got == js_get_named_property(options, key)
  IN  IF got.ok /\ got.value.type = "boolean" /\ got.value.b
      THEN {flag} ELSE {}

\* One string field: the property's string, when it is read and is a
\* string; otherwise no string at all.
StringField(options, key) ==
  LET got == js_get_named_property(options, key)
  IN  IF got.ok /\ got.value.type = "string"
      THEN [some |-> TRUE, s |-> got.value.s]
      ELSE [some |-> FALSE, s |-> <<>>]

\* parse_diff_options: the set of flags (the source ORs distinct bits).
parse_diff_options(options) ==
  IF options.type \in {"null", "undefined"} THEN {}
  ELSE LET alg == StringField(options, "algorithm")
       IN  BoolFlag(options, "ignoreWhitespace", "XDF_IGNORE_WHITESPACE")
             \cup BoolFlag(options, "ignoreWhitespaceChange",
                           "XDF_IGNORE_WHITESPACE_CHANGE")
             \cup BoolFlag(options, "ignoreWhitespaceAtEol",
                           "XDF_IGNORE_WHITESPACE_AT_EOL")
             \cup BoolFlag(options, "ignoreBlankLines", "XDF_IGNORE_BLANK_LINES")
             \cup (IF ~alg.some THEN {}
                   ELSE IF strcmp_eq(alg.s, S_patience) THEN {"XDF_PATIENCE_DIFF"}
                   ELSE IF strcmp_eq(alg.s, S_histogram) THEN {"XDF_HISTOGRAM_DIFF"}
                   ELSE {})

MergeDefaults ==
  [level |-> XDL_MERGE_MINIMAL, favor |-> 0, style |-> 0,
   marker_size |-> DefaultMarkerSize]

\* The markerSize block of parse_merge_options; size is what
\* js_get_value_int32 stored.
MarkerSizeWithoutCheck(options, size) ==
  LET got == js_get_named_property(options, "markerSize")
  IN  IF got.ok /\ got.value.type = "number"
      THEN size ELSE DefaultMarkerSize

MarkerSize(options, size) ==
  LET got == js_get_named_property(options, "markerSize")
  IN  IF got.ok /\ got.value.type = "number" /\ size > 0
      THEN size ELSE DefaultMarkerSize

\* parse_merge_options; size is what js_get_value_int32 stored.
parse_merge_options(options, size) ==
  IF options.type \in {"null", "undefined"} THEN MergeDefaults
  ELSE LET level == StringField(options, "level")
           favor == StringField(options, "favor")
           style == StringField(options, "style")
       IN  [level |->
              IF ~level.some THEN XDL_MERGE_MINIMAL
              ELSE IF strcmp_eq(level.s, S_eager) THEN XDL_MERGE_EAGER
              ELSE IF strcmp_eq(level.s, S_zealous) THEN XDL_MERGE_ZEALOUS
              ELSE IF strcmp_eq(level.s, S_zealous_alnum)
                   THEN XDL_MERGE_ZEALOUS_ALNUM
              ELSE XDL_MERGE_MINIMAL,
            favor |->
              IF ~favor.some THEN 0
              ELSE IF strcmp_eq(favor.s, S_ours) THEN XDL_MERGE_FAVOR_OURS
              ELSE IF strcmp_eq(favor.s, S_theirs) THEN XDL_MERGE_FAVOR_THEIRS
              ELSE IF strcmp_eq(favor.s, S_union) THEN XDL_MERGE_FAVOR_UNION
              ELSE 0,
            style |->
              IF ~style.some THEN 0
              ELSE IF strcmp_eq(style.s, S_diff3) THEN XDL_MERGE_DIFF3
              ELSE IF strcmp_eq(style.s, S_zealous_diff3)
                   THEN XDL_MERGE_ZEALOUS_DIFF3
              ELSE 0,
            marker_size |-> MarkerSize(options, size)]

\* The int32 values js_get_value_int32 can store for the markerSize property.
MarkerSizeReads(options) == js_get_value_int32(options.props["markerSize"].n)

\* The options of a diff or diffSync call: given says whether the call has
\* an options argument.
DiffCallOptions(given, options) ==
  IF given THEN parse_diff_options(options) ELSE {}

\* The options of a merge or mergeSync call.
MergeCallOptions(given, options, size) ==
  IF given THEN parse_merge_options(options, size) ELSE MergeDefaults

\* The parameters the work function and mergeSync hand to the engine.
MergeParams(marker_size, level, favor, style) ==
  [marker_size |-> marker_size, level |-> level, favor |-> favor,
   style |-> style]
ParamsOf(o) == MergeParams(o.marker_size, o.level, o.favor, o.style)

(***************************************************************************)
(* The codec on its own: one step decodes the options of one call.         *)
(***************************************************************************)
CodecIdle ==
  [op |-> "none", given |-> FALSE, options |-> Config("undefined", NoProps),
   flags |-> {}, merge |-> MergeDefaults, xmp |-> ParamsOf(MergeDefaults)]

\* The arguments tried: no options argument, or one of the configurations.
CodecArgs ==
  {[given |-> FALSE, options |-> Config("undefined", NoProps)]}
    \cup [given : {TRUE}, options : AllConfigs]

DecodeDiffOptions ==
  /\ codec.op = "none"
  /\ \E arg \in CodecArgs :
       codec' = [op |-> "diff", given |-> arg.given, options |-> arg.options,
                 flags |-> DiffCallOptions(arg.given, arg.options),
                 merge |-> MergeDefaults, xmp |-> ParamsOf(MergeDefaults)]
  /\ UNCHANGED <<regime, mem, tasks, sync, shutdown, sink>>

DecodeMergeOptions ==
  /\ codec.op = "none"
  /\ \E arg \in CodecArgs :
       \E size \in MarkerSizeReads(arg.options) :
         LET o == MergeCallOptions(arg.given, arg.options, size)
         IN  codec' = [op |-> "merge", given |-> arg.given,
                       options |-> arg.options, flags |-> {}, merge |-> o,
                       xmp |-> ParamsOf(o)]
  /\ UNCHANGED <<regime, mem, tasks, sync, shutdown, sink>>

(***************************************************************************)
(* Bytes.  A byte string is kept as its runs: <<[b |-> 64, n |-> 12]>> is  *)
(* twelve bytes 64.  No run is empty and no two neighbours hold the same   *)
(* byte, so two byte strings are equal exactly when their runs are.        *)
(***************************************************************************)
Run(b, n) == IF n = 0 THEN <<>> ELSE <<[b |-> b, n |-> n]>>

RECURSIVE BLen(_)
BLen(x) == IF x = <<>> THEN 0 ELSE Head(x).n + BLen(Tail(x))

\* x followed by y.
BCat(x, y) ==
  IF x = <<>> THEN y
  ELSE IF y = <<>> THEN x
  ELSE LET last == x[Len(x)]
       IN  IF last.b = Head(y).b
           THEN SubSeq(x, 1, Len(x) - 1)
                  \o <<[b |-> last.b, n |-> last.n + Head(y).n]>> \o Tail(y)
           ELSE x \o y

\* The first n bytes of x.
RECURSIVE BTake(_, _)
BTake(x, n) ==
  IF n = 0 \/ x = <<>> THEN <<>>
  ELSE IF Head(x).n >= n THEN Run(Head(x).b, n)
  ELSE <<Head(x)>> \o BTake(Tail(x), n - Head(x).n)

\* The bytes of a sequence of byte values.
RECURSIVE BOf(_)
BOf(seq) == IF seq = <<>> THEN <<>> ELSE BCat(Run(Head(seq), 1), BOf(Tail(seq)))

(***************************************************************************)
(* Memory.  Host memory is one array of bytes, addressed from 0; an input  *)
(* view is offset and length in it.  A pointer is null, or into the host's *)
(* memory, or a block of the C heap, which carries its own bytes.          *)
(***************************************************************************)
\* The reads of the source start at data + offset, so this much is modelled.
MemSize == 2 * MaxOff + MaxLen
Views == [off : 0..MaxOff, len : 0..MaxLen]

\* The memory at the start, and after the host has rewritten all of it.
MemPattern(flip) == [i \in 1..MemSize |-> (((i - 1) \div 2) + flip) % 2]
MemPatterns == {MemPattern(0), MemPattern(1)}

NullPtr == [space |-> "null", addr |-> 0, bytes |-> <<>>]
HostPtr(addr) == [space |-> "host", addr |-> addr, bytes |-> <<>>]
HeapPtr(bytes) == [space |-> "heap", addr |-> 0, bytes |-> bytes]

\* The n bytes of host memory m from address addr on.
HostRead(m, addr, n) == BOf(SubSeq(m, addr + 1, addr + n))

\* The n bytes a pointer points at, host memory being m.
Deref(ptr, m, n) ==
  IF ptr.space = "host" THEN HostRead(m, ptr.addr, n)
  ELSE BTake(ptr.bytes, n)

\* js_get_typedarray_info: data is the address of the view's first byte,
\* offset the view's byte offset in its backing store.
js_get_typedarray_info(view) ==
  [data |-> view.off, len |-> view.len, offset |-> view.off]

\* xdl_malloc: no block when the allocation fails; for a size of 0 the
\* allocator returns a null pointer or a block, as zero_null says.
xdl_malloc(size, fails, zero_null) ==
  IF fails \/ (size = 0 /\ zero_null) THEN NullPtr ELSE HeapPtr(<<>>)

\* memcpy(dst, src, n) into the start of a heap block (nothing to do for a
\* null dst, which the source only has with n = 0).
memcpy(dst, src, m, n) ==
  IF dst.space = "heap" THEN HeapPtr(Deref(src, m, n)) ELSE dst

(***************************************************************************)
(* What a call meets outside the bridge: how the engine ends, how large    *)
(* the hunk header it emits is, and which allocations fail.                *)
(***************************************************************************)
HeaderSizes == {12, 1024, 1100, 3000}
Env(engine, hsize, out_fails, grow_fails, copy_fails, zero_null) ==
  [engine |-> engine, hsize |-> hsize, out_fails |-> out_fails,
   grow_fails |-> grow_fails, copy_fails |-> copy_fails,
   zero_null |-> zero_null]
CalmEnv(zero_null) == Env("ok", 12, FALSE, FALSE, FALSE, zero_null)

(***************************************************************************)
(* The growable output buffer of diff and its sink.                        *)
(***************************************************************************)
InitialCapacity == 1024
GrowthFloor == 1024
ContextLines == 3

\* xdiff_out_line from buffer i of mb on: the sink's return value and the
\* output buffer it leaves.
\* The capacity the sink grows the buffer to.
NewCapacityDoubled(capacity, new_len) == capacity * 2

NewCapacity(capacity, new_len) ==
  IF capacity * 2 < new_len THEN new_len + GrowthFloor ELSE capacity * 2

RECURSIVE OutLineFrom(_, _, _, _)
OutLineFrom(output, mb, i, grow_fails) ==
  IF i > Len(mb) THEN [ret |-> 0, output |-> output]
  ELSE LET new_len == output.len + BLen(mb[i])
           new_capacity == NewCapacity(output.capacity, new_len)
           grows == new_len > output.capacity
       IN  IF grows /\ grow_fails THEN [ret |-> -1, output |-> output]
           ELSE OutLineFrom(
                  [data |-> HeapPtr(BCat(BTake(output.data.bytes, output.len),
                                         mb[i])),
                   len |-> new_len,
                   capacity |-> IF grows THEN new_capacity ELSE output.capacity],
                  mb, i + 1, grow_fails)

xdiff_out_line_succeeds(output, mb, grow_fails) ==
  [ret |-> 0, output |-> OutLineFrom(output, mb, 1, grow_fails).output]

xdiff_out_line(output, mb, grow_fails) == OutLineFrom(output, mb, 1, grow_fails)

\* The output buffer as bare_xdiff_diff_work sets it up.
NewOutput(data) == [data |-> data, len |-> 0, capacity |-> InitialCapacity]

\* One output buffer under the calls an engine may make: the sizes of the
\* chunks tried, and how many buffers a call passes.  A chunk's bytes tell
\* its position among the chunks.
ChunkSizes == {0, 1, 1024, 2048, 2049}
BufCounts == {1, 2}
Chunk(k, size) == Run(65 + (k % 2), size)
Chunks(k, sizes) == [i \in DOMAIN sizes |-> Chunk(k + i - 1, sizes[i])]
SizeLists == UNION {[1..n -> ChunkSizes] : n \in BufCounts}

RECURSIVE Passed(_)
Passed(calls) ==
  IF calls = <<>> THEN <<>> ELSE Head(calls) \o Passed(Tail(calls))

SinkStart ==
  [output |-> NewOutput(HeapPtr(<<>>)), calls |-> <<>>, ret |-> 0,
   grow_fails |-> FALSE]

\* The engine calls the sink with some buffers; after a failure it calls
\* no more.
OutLine ==
  /\ sink.ret = 0
  /\ Len(sink.calls) < MaxCalls
  /\ \E sizes \in SizeLists, grow_fails \in BOOLEAN :
       LET mb == Chunks(Len(Passed(sink.calls)), sizes)
           r == xdiff_out_line(sink.output, mb, grow_fails)
       IN  sink' = [output |-> r.output, calls |-> Append(sink.calls, mb),
                    ret |-> r.ret, grow_fails |-> grow_fails]
  /\ UNCHANGED <<regime, codec, mem, tasks, sync, shutdown>>

(***************************************************************************)
(* The comparison engine, from its call contract: xdl_diff emits chunks    *)
(* through the sink and returns a negative code on failure; xdl_merge      *)
(* writes one buffer and returns the number of conflicts or a negative     *)
(* code.  The engine here works on whole inputs: equal inputs give no      *)
(* output, different ones a header, the old and the new text.              *)
(***************************************************************************)
\* The sink calls xdl_diff makes, each with its buffers.
DiffCalls(a, b, flags, ctxlen, hsize) ==
  IF a = b THEN <<>>
  ELSE <<<<Run(64 + Cardinality(flags), hsize), Run(48 + ctxlen, 1)>>>>
         \o (IF a = <<>> THEN <<>> ELSE <<<<Run(45, 1), a>>>>)
         \o (IF b = <<>> THEN <<>> ELSE <<<<Run(43, 1), b>>>>)

RECURSIVE Emit(_, _, _)
Emit(output, calls, grow_fails) ==
  IF calls = <<>> THEN [ret |-> 0, output |-> output]
  ELSE LET r == xdiff_out_line(output, Head(calls), grow_fails)
       IN  IF r.ret < 0 THEN [ret |-> -1, output |-> r.output]
           ELSE Emit(r.output, Tail(calls), grow_fails)

xdl_diff(a, b, flags, ctxlen, output, env) ==
  IF env.engine = "fail_early" THEN [ret |-> -1, output |-> output]
  ELSE LET r == Emit(output, DiffCalls(a, b, flags, ctxlen, env.hsize),
                     env.grow_fails)
       IN  IF env.engine = "fail_late" THEN [ret |-> -1, output |-> r.output]
           ELSE r

\* The merged text and the number of conflicts.
Merged(anc, ours, theirs, xmp) ==
  LET mark(b) == Run(b, xmp.marker_size)
      both == BCat(ours, theirs)
  IN  IF ours = theirs \/ theirs = anc THEN [n |-> 0, out |-> ours]
      ELSE IF ours = anc THEN [n |-> 0, out |-> theirs]
      ELSE IF xmp.favor = XDL_MERGE_FAVOR_OURS THEN [n |-> 0, out |-> ours]
      ELSE IF xmp.favor = XDL_MERGE_FAVOR_THEIRS THEN [n |-> 0, out |-> theirs]
      ELSE IF xmp.favor = XDL_MERGE_FAVOR_UNION THEN [n |-> 0, out |-> both]
      ELSE [n |-> 1,
            out |-> BCat(mark(60),
                    BCat(ours,
                    BCat(IF xmp.style = 0 THEN <<>> ELSE BCat(mark(124), anc),
                    BCat(mark(61), BCat(theirs, mark(62))))))]

\* xdl_merge: its return value and the mmbuffer_t it fills.  On failure it
\* leaves no buffer.
xdl_merge(anc, ours, theirs, xmp, env) ==
  IF env.engine # "ok" THEN [ret |-> -1, ptr |-> NullPtr, size |-> 0]
  ELSE LET m == Merged(anc, ours, theirs, xmp)
           block == xdl_malloc(BLen(m.out), FALSE, env.zero_null)
       IN  [ret |-> m.n,
            ptr |-> IF block.space = "heap" THEN HeapPtr(m.out) ELSE block,
            size |-> BLen(m.out)]

(***************************************************************************)
(* The request record and the two work functions.  A work function yields  *)
(* the request as it leaves it, what it allocated and freed (log), and     *)
(* what it handed to the engine (call).                                    *)
(***************************************************************************)
ZeroRequest ==
  [ctx |-> "none", callback |-> "none",
   buf1 |-> NullPtr, len1 |-> 0, buf2 |-> NullPtr, len2 |-> 0,
   buf3 |-> NullPtr, len3 |-> 0,
   diff_flags |-> {}, merge_level |-> 0, merge_favor |-> 0, merge_style |-> 0,
   merge_marker_size |-> 0,
   result |-> NullPtr, result_len |-> 0, error_code |-> 0, conflict_count |-> 0,
   teardown |-> "none"]

NoCall == [fn |-> "none", a |-> <<>>, b |-> <<>>, c |-> <<>>, flags |-> {},
           xmp |-> MergeParams(0, 0, 0, 0)]
DiffCall(a, b, flags) ==
  [fn |-> "xdl_diff", a |-> a, b |-> b, c |-> <<>>, flags |-> flags,
   xmp |-> MergeParams(0, 0, 0, 0)]
MergeCall(anc, ours, theirs, xmp) ==
  [fn |-> "xdl_merge", a |-> anc, b |-> ours, c |-> theirs, flags |-> {},
   xmp |-> xmp]

\* Whether a pointer is not NULL, and the log of allocating or freeing it.
Set(ptr) == ptr.space # "null"
Logged(ptr, event) == IF Set(ptr) THEN <<event>> ELSE <<>>

\* The result a finished diff stores: the output buffer and its length.
DiffStoreCapacity(request, output) ==
  [request EXCEPT !.result = output.data, !.result_len = output.capacity,
                  !.error_code = 0]

DiffStoreNoLen(request, output) ==
  [request EXCEPT !.result = output.data, !.error_code = 0]

DiffStore(request, output) ==
  [request EXCEPT !.result = output.data, !.result_len = output.len,
                  !.error_code = 0]

\* What a failed diff leaves: the output freed, the code stored.
DiffFailKeepsResult(request, output, ret) ==
  [req |-> [request EXCEPT !.error_code = ret, !.result = output.data,
                           !.result_len = output.len],
   log |-> <<"+result", "-result">>]

DiffFailDropsInput(request, output, ret) ==
  [req |-> [request EXCEPT !.error_code = ret, !.buf1 = NullPtr],
   log |-> <<"+result", "-result">>]

DiffFail(request, output, ret) ==
  [req |-> [request EXCEPT !.error_code = ret],
   log |-> <<"+result", "-result">>]

bare_xdiff_diff_work(request, m, env) ==
  LET mf1 == Deref(request.buf1, m, request.len1)
      mf2 == Deref(request.buf2, m, request.len2)
      data == xdl_malloc(InitialCapacity, env.out_fails, env.zero_null)
      output == NewOutput(data)
      r == xdl_diff(mf1, mf2, request.diff_flags, ContextLines, output, env)
      call == DiffCall(mf1, mf2, request.diff_flags)
  IN  IF ~Set(data)
      THEN [req |-> [request EXCEPT !.error_code = -1], log |-> <<>>,
            call |-> NoCall]
      ELSE IF r.ret < 0
      THEN LET f == DiffFail(request, r.output, r.ret)
           IN  [req |-> f.req, log |-> f.log, call |-> call]
      ELSE [req |-> DiffStore(request, r.output), log |-> <<"+result">>,
            call |-> call]

\* What merge stores for a non-negative return of the engine.
MergeStoreUnchecked(request, copy, result, ret, m) ==
  [request EXCEPT !.result = memcpy(copy, result.ptr, m, result.size),
                  !.result_len = result.size, !.error_code = 0,
                  !.conflict_count = ret]

MergeStore(request, copy, result, ret, m) ==
  IF Set(copy)
  THEN [request EXCEPT !.result = memcpy(copy, result.ptr, m, result.size),
                       !.result_len = result.size, !.error_code = 0,
                       !.conflict_count = ret]
  ELSE [request EXCEPT !.error_code = -1, !.conflict_count = 0]

bare_xdiff_merge_work(request, m, env) ==
  LET ancestor == Deref(request.buf1, m, request.len1)
      ours == Deref(request.buf2, m, request.len2)
      theirs == Deref(request.buf3, m, request.len3)
      xmp == MergeParams(request.merge_marker_size, request.merge_level,
                         request.merge_favor, request.merge_style)
      result == xdl_merge(ancestor, ours, theirs, xmp, env)
      copy == xdl_malloc(result.size, env.copy_fails, env.zero_null)
      call == MergeCall(ancestor, ours, theirs, xmp)
  IN  IF result.ret < 0
      THEN [req |-> [request EXCEPT !.error_code = result.ret,
                                    !.conflict_count = 0],
            log |-> Logged(result.ptr, "+engine"), call |-> call]
      ELSE [req |-> MergeStore(request, copy, result, result.ret, m),
            log |-> Logged(result.ptr, "+engine") \o Logged(copy, "+result")
                      \o Logged(result.ptr, "-engine"),
            call |-> call]

(***************************************************************************)
(* Completion: the arguments of the callback, and the clean-up.            *)
(***************************************************************************)
\* A value of the host.  backing says whose memory its bytes are in:
\* js_create_arraybuffer gives memory of the host.
NoValue ==
  [kind |-> "none", conflict |-> FALSE, output |-> <<>>, backing |-> "none"]
NullValue ==
  [kind |-> "null", conflict |-> FALSE, output |-> <<>>, backing |-> "none"]
BufferValue(bytes) ==
  [kind |-> "buffer", conflict |-> FALSE, output |-> bytes, backing |-> "host"]
ObjectValue(conflict, bytes) ==
  [kind |-> "object", conflict |-> conflict, output |-> bytes,
   backing |-> "host"]

NoArgs == [err |-> "none", msg |-> "", val |-> NoValue, log |-> <<>>]

\* Whether bare_xdiff_after takes its failure branch.
AfterFailsOnCodeOnly(request, status) == request.error_code < 0

AfterFails(request, status) == status # 0 \/ request.error_code < 0

\* argv of the callback, and the copy made for it.
AfterArgsWithoutCopy(request, m, status) ==
  IF AfterFails(request, status)
  THEN [err |-> "error", msg |-> "Operation failed", val |-> NullValue,
        log |-> <<>>]
  ELSE LET bytes == Deref(request.result, m, request.result_len)
       IN  [err |-> "null", msg |-> "",
            val |-> [(IF Set(request.buf3)
                      THEN ObjectValue(request.conflict_count > 0, bytes)
                      ELSE BufferValue(bytes)) EXCEPT !.backing = "bridge"],
            log |-> <<>>]

AfterArgs(request, m, status) ==
  IF AfterFails(request, status)
  THEN [err |-> "error", msg |-> "Operation failed", val |-> NullValue,
        log |-> <<>>]
  ELSE LET bytes == Deref(request.result, m, request.result_len)
       IN  [err |-> "null", msg |-> "",
            val |-> IF Set(request.buf3)
                    THEN ObjectValue(request.conflict_count > 0, bytes)
                    ELSE BufferValue(bytes),
            log |-> <<"copyout">>]

\* How often bare_xdiff_after calls the callback.
CallsOnlyOnSuccess(args) == IF args.err = "error" THEN <<>> ELSE <<"call">>

Calls(args) == <<"call">>

\* The clean-up of bare_xdiff_after.
CleanupKeepsGuard(request) ==
  Logged(request.buf1, "-buf1") \o Logged(request.buf2, "-buf2")
    \o Logged(request.buf3, "-buf3") \o Logged(request.result, "-result")
    \o <<"-ctx", "-callback", "-request">>

CleanupLeaksThird(request) ==
  Logged(request.buf1, "-buf1") \o Logged(request.buf2, "-buf2")
    \o Logged(request.result, "-result")
    \o <<"-ctx", "-callback", "-teardown", "-request">>

Cleanup(request) ==
  Logged(request.buf1, "-buf1") \o Logged(request.buf2, "-buf2")
    \o Logged(request.buf3, "-buf3") \o Logged(request.result, "-result")
    \o <<"-ctx", "-callback", "-teardown", "-request">>

\* What bare_xdiff_after does from the call on: it calls the callback,
\* ignores what js_call_function returns (threw: the callback raised) and
\* cleans up.
CompletionStopsOnThrow(request, args, threw) ==
  Calls(args) \o (IF threw THEN <<>> ELSE Cleanup(request))

Completion(request, args, threw) == Calls(args) \o Cleanup(request)

(***************************************************************************)
(* Submission: diff and merge build the request and queue the work.        *)
(***************************************************************************)
\* The address the source reads an input view from.
InputPtr(info) == HostPtr(info.data + info.offset)

\* "Copy input data": a block of len bytes, filled from the view.
CopyInAlias(m, info, zero_null) == InputPtr(info)

CopyIn(m, info, zero_null) ==
  memcpy(xdl_malloc(info.len, FALSE, zero_null), InputPtr(info), m, info.len)

\* References, teardown tracking and uv_queue_work, shared by both.
Tracked(request) ==
  [request EXCEPT !.callback = "ref", !.ctx = "ref", !.teardown = "handle"]
TrackedLogNoGuard == <<"+callback", "+ctx", "queue">>

TrackedLog == <<"+callback", "+ctx", "+teardown", "queue">>

DiffRequest(m, v1, v2, given, options, zero_null) ==
  LET i1 == js_get_typedarray_info(v1)
      i2 == js_get_typedarray_info(v2)
      request ==
        [ZeroRequest EXCEPT
           !.diff_flags = DiffCallOptions(given, options),
           !.buf1 = CopyIn(m, i1, zero_null), !.len1 = i1.len,
           !.buf2 = CopyIn(m, i2, zero_null), !.len2 = i2.len]
  IN  [req |-> Tracked(request),
       log |-> <<"+request">> \o Logged(request.buf1, "+buf1")
                 \o Logged(request.buf2, "+buf2") \o TrackedLog]

MergeRequest(m, v1, v2, v3, given, options, size, zero_null) ==
  LET i1 == js_get_typedarray_info(v1)
      i2 == js_get_typedarray_info(v2)
      i3 == js_get_typedarray_info(v3)
      o == MergeCallOptions(given, options, size)
      request ==
        [ZeroRequest EXCEPT
           !.merge_level = o.level, !.merge_favor = o.favor,
           !.merge_style = o.style, !.merge_marker_size = o.marker_size,
           !.buf1 = CopyIn(m, i1, zero_null), !.len1 = i1.len,
           !.buf2 = CopyIn(m, i2, zero_null), !.len2 = i2.len,
           !.buf3 = CopyIn(m, i3, zero_null), !.len3 = i3.len]
  IN  [req |-> Tracked(request),
       log |-> <<"+request">> \o Logged(request.buf1, "+buf1")
                 \o Logged(request.buf2, "+buf2")
                 \o Logged(request.buf3, "+buf3") \o TrackedLog]

(***************************************************************************)
(* The synchronous calls: what the call returns or raises.                 *)
(***************************************************************************)
DiffSyncFailLeaks(output) == <<"+result">>

DiffSyncFail(output) == <<"+result", "-result">>

bare_xdiff_diff_sync(m, v1, v2, given, options, env) ==
  LET i1 == js_get_typedarray_info(v1)
      i2 == js_get_typedarray_info(v2)
      diff_flags == DiffCallOptions(given, options)
      mf1 == Deref(InputPtr(i1), m, i1.len)
      mf2 == Deref(InputPtr(i2), m, i2.len)
      data == xdl_malloc(InitialCapacity, env.out_fails, env.zero_null)
      output == NewOutput(data)
      r == xdl_diff(mf1, mf2, diff_flags, ContextLines, output, env)
      call == DiffCall(mf1, mf2, diff_flags)
  IN  IF ~Set(data)
      THEN [raised |-> TRUE, msg |-> "Memory allocation failed",
            val |-> NoValue, log |-> <<>>, call |-> NoCall]
      ELSE IF r.ret < 0
      THEN [raised |-> TRUE, msg |-> "xdl_diff failed", val |-> NoValue,
            log |-> DiffSyncFail(r.output), call |-> call]
      ELSE [raised |-> FALSE, msg |-> "",
            val |-> BufferValue(Deref(r.output.data, m, r.output.len)),
            log |-> <<"+result", "copyout", "-result">>, call |-> call]

\* What a mergeSync that returns a value allocates, copies and frees.
MergeSyncDoneLeaks(result) == Logged(result.ptr, "+engine") \o <<"copyout">>

MergeSyncDone(result) ==
  Logged(result.ptr, "+engine") \o <<"copyout">>
    \o Logged(result.ptr, "-engine")

bare_xdiff_merge_sync(m, v1, v2, v3, given, options, size, env) ==
  LET i1 == js_get_typedarray_info(v1)
      i2 == js_get_typedarray_info(v2)
      i3 == js_get_typedarray_info(v3)
      o == MergeCallOptions(given, options, size)
      ancestor == Deref(InputPtr(i1), m, i1.len)
      ours == Deref(InputPtr(i2), m, i2.len)
      theirs == Deref(InputPtr(i3), m, i3.len)
      xmp == MergeParams(o.marker_size, o.level, o.favor, o.style)
      result == xdl_merge(ancestor, ours, theirs, xmp, env)
      call == MergeCall(ancestor, ours, theirs, xmp)
  IN  IF result.ret < 0
      THEN [raised |-> TRUE, msg |-> "xdl_merge failed", val |-> NoValue,
            log |-> Logged(result.ptr, "+engine"), call |-> call]
      ELSE [raised |-> FALSE, msg |-> "",
            val |-> ObjectValue(result.ret > 0,
                                Deref(result.ptr, m, result.size)),
            log |-> MergeSyncDone(result), call |-> call]

(***************************************************************************)
(* The state machine.                                                      *)
(***************************************************************************)
Slots == 1..MaxTasks
NoView == [off |-> 0, len |-> 0]
NoConfig == Config("undefined", NoProps)

NoTask ==
  [pc |-> "none", work |-> "none", req |-> ZeroRequest,
   views |-> <<NoView, NoView, NoView>>, given |-> FALSE, options |-> NoConfig,
   mem0 |-> MemPattern(0), mem1 |-> MemPattern(0), env |-> CalmEnv(FALSE),
   status |-> 0, args |-> NoArgs, threw |-> FALSE, log |-> <<>>,
   call |-> NoCall]

NoOutcome ==
  [raised |-> FALSE, msg |-> "", val |-> NoValue, log |-> <<>>,
   call |-> NoCall]
SyncIdle ==
  [op |-> "none", views |-> <<NoView, NoView, NoView>>, given |-> FALSE,
   options |-> NoConfig, mem0 |-> MemPattern(0), env |-> CalmEnv(FALSE),
   out |-> NoOutcome]

\* The inputs and outcomes tried, by regime.
Props(key, v) == [NoProps EXCEPT ![key] = v]
Options(given, options) == [given |-> given, options |-> options]
Absent == Options(FALSE, NoConfig)

OneViewOnly == {[off |-> 0, len |-> MaxLen]}
DiffOptionsTried ==
  {Absent,
   Options(TRUE, Config("object", Props("algorithm", JsStr(S_patience)))),
   Options(TRUE, Config("object", Props("ignoreWhitespace", JsBool(TRUE))))}
MergeOptionsTried ==
  {Absent,
   Options(TRUE, Config("object",
                        Props("markerSize", JsNum(Fin(FALSE, 0, 3, FALSE))))),
   Options(TRUE, Config("object",
                        Props("markerSize", JsNum(Fin(FALSE, 0, 0, FALSE))))),
   Options(TRUE, Config("object", Props("favor", JsStr(S_ours)))),
   Options(TRUE, Config("object", Props("style", JsStr(S_diff3))))}
DiffEnvsTried ==
  {Env(e, h, FALSE, g, FALSE, z) :
     e \in {"ok", "fail_early", "fail_late"}, h \in HeaderSizes,
     g \in BOOLEAN, z \in BOOLEAN}
    \cup {Env("ok", 12, TRUE, FALSE, FALSE, z) : z \in BOOLEAN}
MergeEnvsTried ==
  {Env(e, 12, FALSE, FALSE, c, z) :
     e \in {"ok", "fail_early"}, c \in BOOLEAN, z \in BOOLEAN}
FewEnvs ==
  {CalmEnv(FALSE), Env("fail_early", 12, FALSE, FALSE, FALSE, FALSE)}

CallViews == IF regime = "one" THEN Views ELSE OneViewOnly
ZeroNulls == IF regime = "one" THEN BOOLEAN ELSE {FALSE}
DiffOptions == IF regime = "one" THEN DiffOptionsTried ELSE {Absent}
MergeOptions == IF regime = "one" THEN MergeOptionsTried ELSE {Absent}
DiffEnvs(zero_null) ==
  {env \in IF regime = "one" THEN DiffEnvsTried ELSE FewEnvs :
     env.zero_null = zero_null}
MergeEnvs(zero_null) ==
  {env \in IF regime = "one" THEN MergeEnvsTried ELSE FewEnvs :
     env.zero_null = zero_null}
\* uv_queue_work's after-callback gets 0, or UV_ECANCELED for work that was
\* cancelled before it ran.
CancelledStatus == -125

\* In regime "one" a call is made only when none has been made.
NothingCalled == sync.op = "none" /\ \A t \in Slots : tasks[t].pc = "none"
MayCall == shutdown # "complete" /\ (regime = "many" \/ NothingCalled)

\* The slot a new request takes: the first unused one.
FreeSlot(t) ==
  /\ tasks[t].pc = "none"
  /\ \A u \in Slots : u < t => tasks[u].pc # "none"

Init ==
  /\ regime \in {"one", "many"}
  /\ codec = CodecIdle
  /\ mem = MemPattern(0)
  /\ tasks = [t \in Slots |-> NoTask]
  /\ sync = SyncIdle
  /\ shutdown = "running"
  /\ sink = SinkStart

\* diff(a, b, [options], callback)
bare_xdiff_diff ==
  /\ MayCall
  /\ \E t \in {u \in Slots : FreeSlot(u)}, v1 \in CallViews, v2 \in CallViews,
        o \in DiffOptions, zero_null \in ZeroNulls :
    LET r == DiffRequest(mem, v1, v2, o.given, o.options, zero_null)
    IN  /\ tasks' = [tasks EXCEPT ![t] =
                       [NoTask EXCEPT !.pc = "queued", !.work = "diff",
                                      !.req = r.req, !.views = <<v1, v2, NoView>>,
                                      !.given = o.given, !.options = o.options,
                                      !.mem0 = mem, !.mem1 = mem,
                                      !.env = CalmEnv(zero_null),
                                      !.log = r.log]]
  /\ UNCHANGED <<regime, codec, mem, sync, shutdown, sink>>

\* merge(ancestor, ours, theirs, [options], callback)
bare_xdiff_merge ==
  /\ MayCall
  /\ \E t \in {u \in Slots : FreeSlot(u)}, v1 \in CallViews, v2 \in CallViews,
        v3 \in CallViews, o \in MergeOptions, zero_null \in ZeroNulls :
    \E size \in MarkerSizeReads(o.options) :
      LET r == MergeRequest(mem, v1, v2, v3, o.given, o.options, size, zero_null)
      IN  /\ tasks' = [tasks EXCEPT ![t] =
                         [NoTask EXCEPT !.pc = "queued", !.work = "merge",
                                        !.req = r.req, !.views = <<v1, v2, v3>>,
                                        !.given = o.given, !.options = o.options,
                                        !.mem0 = mem, !.mem1 = mem,
                                      !.env = CalmEnv(zero_null),
                                        !.log = r.log]]
  /\ UNCHANGED <<regime, codec, mem, sync, shutdown, sink>>

\* A worker thread runs the work function of a queued request.
Work(t) ==
  /\ tasks[t].pc = "queued"
  /\ \E env \in IF tasks[t].work = "diff"
                THEN DiffEnvs(tasks[t].env.zero_null)
                ELSE MergeEnvs(tasks[t].env.zero_null) :
       LET r == IF tasks[t].work = "diff"
                THEN bare_xdiff_diff_work(tasks[t].req, mem, env)
                ELSE bare_xdiff_merge_work(tasks[t].req, mem, env)
       IN  tasks' = [tasks EXCEPT ![t] =
                       [@ EXCEPT !.pc = "worked", !.req = r.req, !.env = env,
                                 !.mem1 = mem, !.log = @ \o r.log,
                                 !.call = r.call]]
  /\ UNCHANGED <<regime, codec, mem, sync, shutdown, sink>>

\* bare_xdiff_after on the host thread: after the work function, with
\* status 0, or for work cancelled before it ran.
AfterWithoutWaiting(t) ==
  /\ \E status \in {0, CancelledStatus}, threw \in BOOLEAN :
       /\ tasks[t].pc \in {"queued", "worked"}
       /\ LET args == AfterArgs(tasks[t].req, mem, status)
          IN  tasks' = [tasks EXCEPT ![t] =
                          [@ EXCEPT !.pc = "done", !.status = status,
                                    !.args = args, !.threw = threw,
                                    !.log = @ \o args.log
                                              \o Completion(tasks[t].req, args,
                                                            threw)]]
  /\ UNCHANGED <<regime, codec, mem, sync, shutdown, sink>>

After(t) ==
  /\ \E status \in {0, CancelledStatus}, threw \in BOOLEAN :
       /\ \/ tasks[t].pc = "worked" /\ status = 0
          \/ tasks[t].pc = "queued" /\ status # 0
       /\ LET args == AfterArgs(tasks[t].req, mem, status)
          IN  tasks' = [tasks EXCEPT ![t] =
                          [@ EXCEPT !.pc = "done", !.status = status,
                                    !.args = args, !.threw = threw,
                                    !.log = @ \o args.log
                                              \o Completion(tasks[t].req, args,
                                                            threw)]]
  /\ UNCHANGED <<regime, codec, mem, sync, shutdown, sink>>

\* diffSync(a, b, [options])
DiffSync ==
  /\ MayCall
  /\ \E v1 \in CallViews, v2 \in CallViews, o \in DiffOptions :
    \E env \in DiffEnvs(FALSE) :
      /\ sync' = [op |-> "diffSync", views |-> <<v1, v2, NoView>>,
                  given |-> o.given, options |-> o.options, mem0 |-> mem,
                  env |-> env,
                  out |-> bare_xdiff_diff_sync(mem, v1, v2, o.given, o.options,
                                               env)]
  /\ UNCHANGED <<regime, codec, mem, tasks, shutdown, sink>>

\* mergeSync(ancestor, ours, theirs, [options])
MergeSync ==
  /\ MayCall
  /\ \E v1 \in CallViews, v2 \in CallViews, v3 \in CallViews, o \in MergeOptions,
        zero_null \in ZeroNulls :
    \E env \in {e \in MergeEnvs(zero_null) : ~e.copy_fails},
       size \in MarkerSizeReads(o.options) :
      /\ sync' = [op |-> "mergeSync", views |-> <<v1, v2, v3>>,
                  given |-> o.given, options |-> o.options, mem0 |-> mem,
                  env |-> env,
                  out |-> bare_xdiff_merge_sync(mem, v1, v2, v3, o.given,
                                                o.options, size, env)]
  /\ UNCHANGED <<regime, codec, mem, tasks, shutdown, sink>>

\* The host rewrites its memory, the input views included.
HostMutate ==
  /\ mem' \in MemPatterns \ {mem}
  /\ UNCHANGED <<regime, codec, tasks, sync, shutdown, sink>>

\* The teardown guards held: js_add_deferred_teardown_callback has handed
\* out a handle that js_finish_deferred_teardown_callback has not yet got.
GuardsHeld ==
  {t \in Slots :
     Cardinality({i \in DOMAIN tasks[t].log : tasks[t].log[i] = "+teardown"})
       > Cardinality({i \in DOMAIN tasks[t].log : tasks[t].log[i] = "-teardown"})}

\* The host asks the environment to shut down.
RequestShutdown ==
  /\ shutdown = "running"
  /\ shutdown' = "requested"
  /\ UNCHANGED <<regime, codec, mem, tasks, sync, sink>>

\* The shutdown completes: the environment waits for every deferred
\* teardown to finish.
CompleteShutdown ==
  /\ shutdown = "requested"
  /\ GuardsHeld = {}
  /\ shutdown' = "complete"
  /\ UNCHANGED <<regime, codec, mem, tasks, sync, sink>>

Next ==
  \/ bare_xdiff_diff
  \/ bare_xdiff_merge
  \/ \E t \in Slots : Work(t)
  \/ \E t \in Slots : After(t)
  \/ DiffSync
  \/ MergeSync
  \/ HostMutate
  \/ RequestShutdown
  \/ CompleteShutdown

Spec == Init /\ [][Next]_vars

InitOpts ==
  /\ regime = "one"
  /\ codec = CodecIdle
  /\ mem = MemPattern(0)
  /\ tasks = [t \in Slots |-> NoTask]
  /\ sync = SyncIdle
  /\ shutdown = "running"
  /\ sink = SinkStart

NextOpts == DecodeDiffOptions \/ DecodeMergeOptions

SpecOpts == InitOpts /\ [][NextOpts]_vars

\* Overlapping requests under fair scheduling: the worker pool runs every
\* queued work function, the host loop runs every completion, and the
\* environment completes a requested shutdown once no guard is held.
\* The steps are those of the async requests and of the shutdown.
\* One output buffer under sink calls.
NextSink == OutLine

SpecSink == InitOpts /\ [][NextSink]_vars

InitFair == Init /\ regime = "many"
NextFair ==
  \/ bare_xdiff_diff
  \/ bare_xdiff_merge
  \/ \E t \in Slots : Work(t)
  \/ \E t \in Slots : After(t)
  \/ RequestShutdown
  \/ CompleteShutdown
Fairness ==
  /\ \A t \in Slots : WF_vars(Work(t)) /\ WF_vars(After(t))
  /\ WF_vars(CompleteShutdown)
SpecFair == InitFair /\ [][NextFair]_vars /\ Fairness

(***************************************************************************)
(* What the claims speak of.                                               *)
(***************************************************************************)
Count(log, event) == Cardinality({i \in DOMAIN log : log[i] = event})
Done(t) == tasks[t].pc = "done"
Outstanding(t) == tasks[t].pc \in {"queued", "worked"}

\* What diffSync and mergeSync give for the arguments of request t, in the
\* memory of its submission and with what its work function met.
SyncOfDiff(t) ==
  bare_xdiff_diff_sync(tasks[t].mem0, tasks[t].views[1], tasks[t].views[2],
                       tasks[t].given, tasks[t].options, tasks[t].env)
SyncOfMerge(t, size) ==
  bare_xdiff_merge_sync(tasks[t].mem0, tasks[t].views[1], tasks[t].views[2],
                        tasks[t].views[3], tasks[t].given, tasks[t].options,
                        size, tasks[t].env)

\* C1: the callback of a request is called exactly once: not before
\* bare_xdiff_after has run, once when it has, whether the request succeeded,
\* the engine failed or the dispatch failed; never twice.
C1_CallbackExactlyOnce ==
  \A t \in Slots :
    /\ Count(tasks[t].log, "call") <= 1
    /\ Done(t) => Count(tasks[t].log, "call") = 1
    /\ ~Done(t) => Count(tasks[t].log, "call") = 0

\* Two finished requests, one that succeeded and one whose dispatch failed,
\* each with its one call.
C1_Witness ==
  \E t, u \in Slots :
    /\ Done(t) /\ tasks[t].args.err = "null"
    /\ Done(u) /\ tasks[u].status # 0 /\ tasks[u].args.err = "error"
    /\ Count(tasks[u].log, "call") = 1

Resources ==
  {"buf1", "buf2", "buf3", "result", "callback", "ctx", "teardown", "request"}
Allocs(t, r) == Count(tasks[t].log, "+" \o r)
Frees(t, r) == Count(tasks[t].log, "-" \o r)

\* C2: what a request holds is released exactly once on every path: nothing
\* is freed twice or before it is allocated, a finished request has freed
\* each input buffer, its result buffer, both references and the record, and
\* has signalled its teardown guard once.
C2_ReleasedExactlyOnce ==
  \A t \in Slots :
    /\ \A r \in Resources : Frees(t, r) <= Allocs(t, r) /\ Allocs(t, r) <= 1
    /\ Done(t) =>
         /\ \A r \in Resources : Frees(t, r) = Allocs(t, r)
         /\ \A r \in {"callback", "ctx", "teardown", "request"} : Frees(t, r) = 1
         /\ Frees(t, "buf1") = IF Set(tasks[t].req.buf1) THEN 1 ELSE 0
         /\ Frees(t, "buf2") = IF Set(tasks[t].req.buf2) THEN 1 ELSE 0
         /\ Frees(t, "buf3") = IF Set(tasks[t].req.buf3) THEN 1 ELSE 0
    /\ Outstanding(t) =>
         \A r \in Resources \ {"result"} : Frees(t, r) = 0 /\
           (r \in {"callback", "ctx", "teardown", "request"} => Allocs(t, r) = 1)

\* A finished merge that held three input buffers and a result buffer and
\* has freed each of them.
C2_Witness ==
  \E t \in Slots :
    /\ Done(t) /\ tasks[t].work = "merge"
    /\ Frees(t, "buf3") = 1 /\ Frees(t, "result") = 1
    /\ tasks[t].args.err = "null"

\* The engine's answer for the call request t made.
MergedOf(t) ==
  Merged(tasks[t].call.a, tasks[t].call.b, tasks[t].call.c, tasks[t].call.xmp)

\* The int32 values the markerSize read of request t can have stored, given
\* the marker size the request holds.
SizesRead(t) ==
  {size \in MarkerSizeReads(tasks[t].options) :
     MergeCallOptions(tasks[t].given, tasks[t].options, size).marker_size
       = tasks[t].req.merge_marker_size}

\* C3: async merge delivers what mergeSync returns for the same inputs and
\* options: it fails only when mergeSync raises, and otherwise hands over the
\* same {conflict, output}, conflict being (conflict count > 0).  Stated for
\* the requests whose dispatch succeeded and whose result copy did not run
\* out of memory.
C3_MergeAsyncEqualsSync ==
  \A t \in Slots :
    (Done(t) /\ tasks[t].work = "merge" /\ tasks[t].status = 0
       /\ ~tasks[t].env.copy_fails) =>
      \A size \in SizesRead(t) :
        LET s == SyncOfMerge(t, size)
        IN  /\ tasks[t].args.err = "error" => s.raised
            /\ tasks[t].args.err = "null" =>
                 /\ ~s.raised
                 /\ tasks[t].args.val = s.val
                 /\ tasks[t].args.val.conflict = (MergedOf(t).n > 0)

\* C4 as claimed: async diff hands over the bytes diffSync returns for the
\* same inputs and options, and fails exactly when diffSync raises.
C4_DiffAsyncEqualsSync ==
  \A t \in Slots :
    (Done(t) /\ tasks[t].work = "diff") =>
      LET s == SyncOfDiff(t)
      IN  /\ (tasks[t].args.err = "error") <=> s.raised
          /\ tasks[t].args.err = "null" => tasks[t].args.val = s.val

\* C4, amended: async diff hands over the bytes diffSync returns for the same
\* inputs and options, and fails exactly when diffSync raises or the
\* dispatch of the request failed.
C4_DiffAsyncEqualsSyncOrDispatch ==
  \A t \in Slots :
    (Done(t) /\ tasks[t].work = "diff") =>
      LET s == SyncOfDiff(t)
      IN  /\ (tasks[t].args.err = "error") <=> (s.raised \/ tasks[t].status # 0)
          /\ tasks[t].args.err = "null" =>
               /\ tasks[t].args.val = s.val
               /\ tasks[t].args.val.kind = "buffer"

\* A finished diff with options that handed over a non-empty buffer whose
\* output buffer had to grow.
C4_Witness ==
  \E t \in Slots :
    /\ Done(t) /\ tasks[t].work = "diff" /\ tasks[t].args.err = "null"
    /\ tasks[t].given /\ tasks[t].req.diff_flags # {}
    /\ BLen(tasks[t].args.val.output) > InitialCapacity

\* What request t would deliver had host memory stayed as it was when the
\* call was made.
Undisturbed(t) ==
  LET m == tasks[t].mem0
      zero_null == tasks[t].env.zero_null
      sizes == SizesRead(t)
      made ==
        IF tasks[t].work = "diff"
        THEN {DiffRequest(m, tasks[t].views[1], tasks[t].views[2],
                          tasks[t].given, tasks[t].options, zero_null).req}
        ELSE {MergeRequest(m, tasks[t].views[1], tasks[t].views[2],
                           tasks[t].views[3], tasks[t].given, tasks[t].options,
                           size, zero_null).req : size \in sizes}
      worked(req) ==
        IF tasks[t].status # 0 THEN req
        ELSE IF tasks[t].work = "diff"
        THEN bare_xdiff_diff_work(req, m, tasks[t].env).req
        ELSE bare_xdiff_merge_work(req, m, tasks[t].env).req
  IN  {AfterArgs(worked(req), m, tasks[t].status) : req \in made}

\* C5: the input buffers of a request are copies made before the call
\* returns: whatever the host does to its memory afterwards, the buffers hold
\* the bytes read at the call, the engine is handed those bytes, and the
\* callback gets what it would have got had memory never changed.
C5_InputsAreCopies ==
  \A t \in Slots :
    /\ tasks[t].pc # "none" =>
         \A i \in 1..3 :
           LET buf == <<tasks[t].req.buf1, tasks[t].req.buf2, tasks[t].req.buf3>>[i]
               info == js_get_typedarray_info(tasks[t].views[i])
           IN  Set(buf) =>
                 /\ buf.space = "heap"
                 /\ buf.bytes = Deref(InputPtr(info), tasks[t].mem0, info.len)
    /\ Done(t) => tasks[t].args \in Undisturbed(t)

\* A diff of two inputs that differ, finished with a buffer, whose work
\* function ran after the host had rewritten its memory.
C5_Witness ==
  \E t \in Slots :
    /\ Done(t) /\ tasks[t].work = "diff" /\ tasks[t].args.err = "null"
    /\ tasks[t].mem1 # tasks[t].mem0
    /\ BLen(tasks[t].args.val.output) > 0

\* C6: bare_xdiff_after calls callback(error, null), the error carrying the
\* fixed message and no result being built, exactly when the dispatch status
\* is not 0 or errorCode is negative; otherwise it calls the callback with a
\* null error and a result that is not null.
C6_FailureOrResult ==
  \A t \in Slots :
    Done(t) =>
      IF tasks[t].status # 0 \/ tasks[t].req.error_code < 0
      THEN /\ tasks[t].args.err = "error"
           /\ tasks[t].args.msg = "Operation failed"
           /\ tasks[t].args.val = NullValue
           /\ Count(tasks[t].log, "copyout") = 0
      ELSE /\ tasks[t].args.err = "null"
           /\ tasks[t].args.val.kind \in {"buffer", "object"}
           /\ Count(tasks[t].log, "copyout") = 1

\* A request whose dispatch failed, so that its work function never ran, and
\* whose callback got the error.
C6_Witness ==
  \E t \in Slots :
    /\ Done(t) /\ tasks[t].status # 0 /\ tasks[t].req.error_code = 0
    /\ tasks[t].args.err = "error"

\* C7: when the engine's merge returns n >= 0, the request ends with
\* errorCode 0 and conflictCount n, and the callback gets
\* (null, {conflict: n > 0, output: the engine's bytes}); a merge with
\* conflicts is not reported as a failure.  Stated for the requests whose
\* result copy did not run out of memory.
C7_MergeSuccessDelivered ==
  \A t \in Slots :
    (Done(t) /\ tasks[t].work = "merge" /\ tasks[t].status = 0
       /\ tasks[t].env.engine = "ok" /\ ~tasks[t].env.copy_fails) =>
      /\ tasks[t].req.error_code = 0
      /\ tasks[t].req.conflict_count = MergedOf(t).n
      /\ tasks[t].args.err = "null"
      /\ tasks[t].args.val = ObjectValue(MergedOf(t).n > 0, MergedOf(t).out)

\* Whether the engine returned a negative value in the last synchronous call.
SyncEngineFailed ==
  /\ sync.out.call.fn # "none"
  /\ IF sync.op = "diffSync"
     THEN xdl_diff(sync.out.call.a, sync.out.call.b, sync.out.call.flags,
                   ContextLines,
                   [data |-> HeapPtr(<<>>), len |-> 0,
                    capacity |-> InitialCapacity], sync.env).ret < 0
     ELSE xdl_merge(sync.out.call.a, sync.out.call.b, sync.out.call.c,
                    sync.out.call.xmp, sync.env).ret < 0

\* C8: when the engine returns a negative value, diffSync and mergeSync
\* raise at the call site: no value is returned, no callback is called and
\* the output buffer the bridge allocated is freed.
C8_SyncRaises ==
  (sync.op # "none" /\ SyncEngineFailed) =>
    /\ sync.out.raised
    /\ sync.out.val = NoValue
    /\ Count(sync.out.log, "call") = 0
    /\ Count(sync.out.log, "copyout") = 0
    /\ Count(sync.out.log, "-result") = Count(sync.out.log, "+result")
    /\ Count(sync.out.log, "-engine") = Count(sync.out.log, "+engine")

\* A diffSync that raised after the engine had filled the output buffer.
C8_Witness ==
  /\ sync.op = "diffSync" /\ sync.env.engine = "fail_late"
  /\ sync.out.call.a # sync.out.call.b
  /\ sync.out.raised /\ sync.out.msg = "xdl_diff failed"
  /\ Count(sync.out.log, "-result") = 1

\* The closed sets of the string fields: each name with the value it stands
\* for.
AlgorithmNames ==
  {[name |-> S_patience, value |-> {"XDF_PATIENCE_DIFF"}],
   [name |-> S_histogram, value |-> {"XDF_HISTOGRAM_DIFF"}]}
LevelNames ==
  {[name |-> S_eager, value |-> XDL_MERGE_EAGER],
   [name |-> S_zealous, value |-> XDL_MERGE_ZEALOUS],
   [name |-> S_zealous_alnum, value |-> XDL_MERGE_ZEALOUS_ALNUM]}
FavorNames ==
  {[name |-> S_ours, value |-> XDL_MERGE_FAVOR_OURS],
   [name |-> S_theirs, value |-> XDL_MERGE_FAVOR_THEIRS],
   [name |-> S_union, value |-> XDL_MERGE_FAVOR_UNION]}
StyleNames ==
  {[name |-> S_diff3, value |-> XDL_MERGE_DIFF3],
   [name |-> S_zealous_diff3, value |-> XDL_MERGE_ZEALOUS_DIFF3]}

\* The value of a string field by the closed set: the value its string
\* stands for when the property is a string of the set, otherwise the
\* default.
ByClosedSet(options, key, names, default) ==
  LET v == options.props[key]
  IN  IF v.type = "string" /\ \E e \in names : e.name = v.s
      THEN (CHOOSE e \in names : e.name = v.s).value
      ELSE default

\* The value of a flag by its type: set when the property is the boolean
\* true.
ByBoolean(options, key, flag) ==
  LET v == options.props[key]
  IN  IF v.type = "boolean" /\ v.b THEN {flag} ELSE {}

\* C9: the codec takes a field from the configuration only if the property
\* has the expected type and, for a string, is one of the closed set; every
\* other field keeps its default, so that absent, null, mistyped and
\* unrecognized options decode to what omitting them decodes to.
C9_FieldsByTypeAndClosedSet ==
  /\ codec.op = "diff" =>
       codec.flags =
         ByBoolean(codec.options, "ignoreWhitespace", "XDF_IGNORE_WHITESPACE")
           \cup ByBoolean(codec.options, "ignoreWhitespaceChange",
                          "XDF_IGNORE_WHITESPACE_CHANGE")
           \cup ByBoolean(codec.options, "ignoreWhitespaceAtEol",
                          "XDF_IGNORE_WHITESPACE_AT_EOL")
           \cup ByBoolean(codec.options, "ignoreBlankLines",
                          "XDF_IGNORE_BLANK_LINES")
           \cup ByClosedSet(codec.options, "algorithm", AlgorithmNames, {})
  /\ codec.op = "merge" =>
       /\ codec.merge.level =
            ByClosedSet(codec.options, "level", LevelNames, XDL_MERGE_MINIMAL)
       /\ codec.merge.favor =
            ByClosedSet(codec.options, "favor", FavorNames, 0)
       /\ codec.merge.style =
            ByClosedSet(codec.options, "style", StyleNames, 0)
       /\ codec.options.props["markerSize"].type # "number" =>
            codec.merge.marker_size = DefaultMarkerSize

\* Whether a number is <= 0, and whether it is a positive integer.
NotPositive(n) ==
  \/ n.cls = "fin" /\ (n.neg \/ (n.k = 0 /\ n.r = 0 /\ ~n.frac))
  \/ n.cls = "inf" /\ n.neg
PositiveInteger(n) ==
  n.cls = "fin" /\ ~n.neg /\ ~n.frac /\ (n.k > 0 \/ n.r > 0)
\* Whether the int32 i is the integer n.
SameInteger(i, n) == InInt32Range(n) /\ ~n.frac /\ i = Truncated(n)

\* C10 as claimed: a markerSize that is a number <= 0 is ignored and the
\* engine gets the default 7; a markerSize that is a positive integer
\* reaches the engine unchanged; the engine's marker size is always positive.
C10_MarkerSize ==
  codec.op = "merge" =>
    LET v == codec.options.props["markerSize"]
    IN  /\ (v.type = "number" /\ NotPositive(v.n)) =>
             codec.xmp.marker_size = DefaultMarkerSize
        /\ (v.type = "number" /\ PositiveInteger(v.n)) =>
             SameInteger(codec.xmp.marker_size, v.n)
        /\ codec.xmp.marker_size > 0

\* C10, amended: markerSize is read as an int32.  A markerSize that is a
\* number <= 0 and not below -2^31 is ignored and the engine gets the
\* default 7; a markerSize that is a positive integer not above 2^31 - 1
\* reaches the engine unchanged; the engine's marker size is always positive.
C10_MarkerSizeInt32 ==
  codec.op = "merge" =>
    LET v == codec.options.props["markerSize"]
    IN  /\ (v.type = "number" /\ NotPositive(v.n) /\ InInt32Range(v.n)) =>
             codec.xmp.marker_size = DefaultMarkerSize
        /\ (v.type = "number" /\ PositiveInteger(v.n) /\ InInt32Range(v.n)) =>
             SameInteger(codec.xmp.marker_size, v.n)
        /\ codec.xmp.marker_size > 0

\* A merge whose options hold markerSize -1 and whose engine got 7.
C10_Witness ==
  /\ codec.op = "merge" /\ codec.given
  /\ codec.options.props["markerSize"] = JsNum(Fin(TRUE, 0, 1, FALSE))
  /\ codec.xmp.marker_size = DefaultMarkerSize

\* Whether every event a of a log stands before every event b of it.
Before(log, a, b) ==
  \A j \in DOMAIN log : log[j] = b => \A i \in j..Len(log) : log[i] # a

\* C11: the shutdown of the environment never completes while a request is
\* outstanding.  The teardown guard of a request is acquired before the
\* request is queued and signalled only after the callback has been called
\* and the buffers and references have been released, so that the guards
\* held are those of the requests submitted and not yet released.
C11_GuardsHeldWhileOutstanding ==
  /\ GuardsHeld = {t \in Slots : Outstanding(t)}
  /\ shutdown = "complete" => \A t \in Slots : ~Outstanding(t)
  /\ \A t \in Slots :
       /\ tasks[t].pc # "none" =>
            /\ Count(tasks[t].log, "+teardown") = 1
            /\ Before(tasks[t].log, "+teardown", "queue")
       /\ Done(t) =>
            \A e \in {"call", "-buf1", "-buf2", "-buf3", "-result", "-ctx",
                      "-callback"} :
              Before(tasks[t].log, e, "-teardown")

\* A shutdown that has been requested and waits: a merge is outstanding and
\* holds its guard, while another request has finished and signalled its own.
C11_Witness ==
  /\ shutdown = "requested"
  /\ \E t, u \in Slots :
       /\ Outstanding(t) /\ t \in GuardsHeld
       /\ Done(u) /\ Count(tasks[u].log, "-teardown") = 1

\* Whether request t met nothing that makes a call fail: the dispatch
\* succeeded, the engine returned success and no allocation ran out of memory.
RanClean(t) ==
  /\ tasks[t].status = 0 /\ tasks[t].env.engine = "ok"
  /\ ~tasks[t].env.out_fails /\ ~tasks[t].env.grow_fails
  /\ ~tasks[t].env.copy_fails
SyncRanClean ==
  /\ sync.env.engine = "ok" /\ ~sync.env.out_fails /\ ~sync.env.grow_fails

C13_MergeOfSelfIsBase ==
  /\ \A t \in Slots :
       (Done(t) /\ tasks[t].work = "merge" /\ ~tasks[t].given
          /\ tasks[t].views[1] = tasks[t].views[2]
          /\ tasks[t].views[2] = tasks[t].views[3] /\ RanClean(t)) =>
         /\ tasks[t].args.err = "null"
         /\ tasks[t].args.val =
              ObjectValue(FALSE, Deref(tasks[t].req.buf1, tasks[t].mem0,
                                       tasks[t].req.len1))
         /\ BLen(tasks[t].args.val.output) = tasks[t].views[1].len
  /\ (sync.op = "mergeSync" /\ ~sync.given /\ sync.views[1] = sync.views[2]
        /\ sync.views[2] = sync.views[3] /\ SyncRanClean) =>
       /\ ~sync.out.raised
       /\ sync.out.val = ObjectValue(FALSE, sync.out.call.a)
       /\ BLen(sync.out.val.output) = sync.views[1].len

\* What bare_xdiff_after releases.
Releases ==
  {"-buf1", "-buf2", "-buf3", "-result", "-ctx", "-callback", "-teardown",
   "-request"}

\* C14: a request is released only after its callback has been called, and
\* whatever the call reports: when the callback raises, the input buffers,
\* the result buffer, the references and the teardown guard are released
\* all the same.
C14_ReleaseFollowsCallback ==
  \A t \in Slots :
    /\ Outstanding(t) =>
         \A e \in Releases \ {"-result"} : Count(tasks[t].log, e) = 0
    /\ Done(t) =>
         /\ Count(tasks[t].log, "call") = 1
         /\ \A e \in Releases \ {"-result"} : Before(tasks[t].log, "call", e)
         /\ Set(tasks[t].req.result) =>
              /\ Count(tasks[t].log, "-result") = 1
              /\ Before(tasks[t].log, "call", "-result")
         /\ \A r \in Resources : Frees(t, r) = Allocs(t, r)
         /\ \A r \in {"callback", "ctx", "teardown", "request"} : Frees(t, r) = 1

\* A finished merge whose callback raised, with its three input buffers, its
\* result buffer and its guard released.
C14_Witness ==
  \E t \in Slots :
    /\ Done(t) /\ tasks[t].threw /\ tasks[t].work = "merge"
    /\ tasks[t].args.err = "null"
    /\ Frees(t, "buf3") = 1 /\ Frees(t, "result") = 1
    /\ Frees(t, "teardown") = 1

\* The steps a request takes, as changes of its position.
Submitted(t) == tasks[t].pc = "none" /\ tasks'[t].pc # "none"
Computed(t) == tasks[t].pc # "worked" /\ tasks'[t].pc = "worked"
Marshaled(t) == tasks[t].pc # "done" /\ tasks'[t].pc = "done"

\* C15: the steps of a request are ordered submit, background compute,
\* marshal and callback on the host thread, release.  The initiating call
\* only queues the request and calls no callback; the work function runs on
\* a queued request and calls no callback; marshaling starts once the work
\* function has returned, or with a failed dispatch; the callback is called
\* then, before the release; and nothing touches the request afterwards.
C15_StepsInOrder ==
  [][\A t \in Slots :
       /\ Submitted(t) =>
            /\ tasks'[t].pc = "queued"
            /\ Count(tasks'[t].log, "queue") = 1
            /\ Count(tasks'[t].log, "call") = 0
       /\ Computed(t) =>
            /\ tasks[t].pc = "queued"
            /\ Count(tasks'[t].log, "call") = 0
            /\ \A e \in Releases \ {"-result"} : Count(tasks'[t].log, e) = 0
       /\ Marshaled(t) =>
            /\ tasks[t].pc = "worked" \/ tasks'[t].status # 0
            /\ tasks[t].pc = "queued" => tasks'[t].call = NoCall
            /\ Before(tasks'[t].log, "queue", "call")
            /\ Before(tasks'[t].log, "copyout", "call")
            /\ \A e \in Releases \ {"-result"} :
                 Before(tasks'[t].log, "call", e)
            /\ Set(tasks[t].req.result) =>
                 Before(tasks'[t].log, "call", "-result")
       /\ Done(t) => tasks'[t] = tasks[t]]_vars

\* Two requests of which the one submitted later has finished while the
\* one submitted first is still queued or worked.
C15_Witness ==
  \E t, u \in Slots :
    /\ t < u /\ Outstanding(t)
    /\ Done(u) /\ tasks[u].status = 0 /\ tasks[u].args.err = "null"

\* C16: under fair scheduling of the worker pool and the host loop, every
\* submitted request eventually has its callback called and is released, its
\* guard included, and a requested shutdown eventually completes; no request
\* stays queued or worked forever.
C16_EveryRequestCompletes ==
  /\ \A t \in Slots :
       Outstanding(t) ~>
         (Done(t) /\ Count(tasks[t].log, "call") = 1 /\ t \notin GuardsHeld
            /\ \A r \in Resources : Frees(t, r) = Allocs(t, r))
  /\ (shutdown = "requested") ~> (shutdown = "complete")

\* A shutdown that completed after every slot had been used by a request,
\* one of them a merge, and every request had finished.
C16_Witness ==
  /\ shutdown = "complete"
  /\ \A t \in Slots : Done(t) /\ Count(tasks[t].log, "-teardown") = 1
  /\ \E t \in Slots : tasks[t].work = "merge"

(***************************************************************************)
(* C17: a work function changes only the result buffer, the result        *)
(* length, the error code and the conflict count of its own request: the  *)
(* input buffers and their lengths, the parsed options, the callback and  *)
(* context references and the teardown guard stay as submitted, host      *)
(* memory is not written, and no other request is touched.                *)
(***************************************************************************)
Inputs(request) ==
  [request EXCEPT !.result = NullPtr, !.result_len = 0, !.error_code = 0,
                  !.conflict_count = 0]

C17_WorkChangesOnlyOutputs ==
  [][\A t \in Slots :
       Computed(t) =>
         /\ Inputs(tasks'[t].req) = Inputs(tasks[t].req)
         /\ \A u \in Slots \ {t} : tasks'[u] = tasks[u]
         /\ mem' = mem]_vars

C17_Witness ==
  \E t \in Slots, u \in Slots :
    /\ t # u
    /\ tasks[t].pc = "worked"
    /\ Set(tasks[t].req.result)
    /\ tasks[t].req.result_len > 0
    /\ Set(tasks[t].req.buf1)
    /\ tasks[t].req.teardown # "none"
    /\ tasks[u].pc = "queued"

(***************************************************************************)
(* C18: what a successful completion hands to the callback is a buffer of *)
(* the host, filled with the bytes of the result before the callback is   *)
(* called, never the allocation of the bridge; the result of the bridge   *)
(* is freed after the callback has returned.                              *)
(***************************************************************************)
C18_CallbackGetsACopy ==
  \A t \in Slots :
    (Done(t) /\ tasks[t].args.err = "null") =>
      /\ tasks[t].args.val.backing = "host"
      /\ tasks[t].args.val.output
           = Deref(tasks[t].req.result, tasks[t].mem1, tasks[t].req.result_len)
      /\ Count(tasks[t].log, "copyout") = 1
      /\ Before(tasks[t].log, "+result", "copyout")
      /\ Before(tasks[t].log, "copyout", "call")
      /\ Count(tasks[t].log, "-result") = 1
      /\ Before(tasks[t].log, "call", "-result")

C18_Witness ==
  \E t \in Slots :
    /\ Done(t)
    /\ tasks[t].args.err = "null"
    /\ tasks[t].args.val.kind = "object"
    /\ BLen(tasks[t].args.val.output) > 0
    /\ tasks[t].threw
    /\ Count(tasks[t].log, "-result") = 1

(***************************************************************************)
(* C19: the diff work function ends in one of two states.  When the       *)
(* engine returns a negative code the request has that code as its error  *)
(* code, the output accumulated so far is freed and the request holds no  *)
(* result; otherwise the error code is 0 and the result and its length    *)
(* are the chunks the engine passed to the sink, concatenated in the      *)
(* order they were passed.  When the output buffer cannot be allocated    *)
(* the engine is not called and the request is in the first state.        *)
(***************************************************************************)
RECURSIVE Concat(_)
Concat(chunks) ==
  IF chunks = <<>> THEN <<>> ELSE BCat(Head(chunks), Concat(Tail(chunks)))

\* The chunks the engine passes for the call of a request, and what the
\* engine returns.
ChunksOf(t) ==
  Passed(DiffCalls(tasks[t].call.a, tasks[t].call.b, tasks[t].call.flags,
                   ContextLines, tasks[t].env.hsize))
EngineReturn(t) ==
  xdl_diff(tasks[t].call.a, tasks[t].call.b, tasks[t].call.flags,
           ContextLines, NewOutput(HeapPtr(<<>>)), tasks[t].env).ret

DiffWorkRan(t) ==
  /\ tasks[t].work = "diff"
  /\ tasks[t].pc = "worked" \/ (Done(t) /\ tasks[t].status = 0)

C19_DiffWorkEndsInOneOfTwo ==
  \A t \in Slots :
    DiffWorkRan(t) =>
      IF tasks[t].call.fn = "none"
      THEN /\ tasks[t].req.error_code = -1
           /\ ~Set(tasks[t].req.result)
           /\ Count(tasks[t].log, "+result") = 0
      ELSE IF EngineReturn(t) < 0
      THEN /\ tasks[t].req.error_code = EngineReturn(t)
           /\ ~Set(tasks[t].req.result)
           /\ tasks[t].req.result_len = 0
           /\ Count(tasks[t].log, "+result") = 1
           /\ Count(tasks[t].log, "-result") = 1
      ELSE /\ tasks[t].req.error_code = 0
           /\ Set(tasks[t].req.result)
           /\ tasks[t].req.result_len = BLen(Concat(ChunksOf(t)))
           /\ Deref(tasks[t].req.result, tasks[t].mem1,
                    tasks[t].req.result_len) = Concat(ChunksOf(t))
           /\ Count(tasks[t].log, "+result") = 1
           /\ tasks[t].pc = "worked" => Count(tasks[t].log, "-result") = 0

C19_Witness ==
  \E t \in Slots :
    /\ DiffWorkRan(t)
    /\ tasks[t].pc = "worked"
    /\ tasks[t].env.engine = "fail_late"
    /\ Len(ChunksOf(t)) > 2
    /\ tasks[t].req.error_code < 0
    /\ Count(tasks[t].log, "-result") = 1

(***************************************************************************)
(* C20: after sink calls that all succeeded, the length of the output     *)
(* buffer is the sum of the sizes of the chunks appended, it is at most   *)
(* the capacity, the capacity has never gone down from the initial 1024,  *)
(* and the first len bytes are the chunks in order.  A chunk that does    *)
(* not fit makes the capacity twice the old one, or the needed length     *)
(* plus 1024 when twice the old one is less than the needed length.       *)
(***************************************************************************)
RECURSIVE SumOfSizes(_)
SumOfSizes(chunks) ==
  IF chunks = <<>> THEN 0 ELSE BLen(Head(chunks)) + SumOfSizes(Tail(chunks))

\* The capacities after each chunk, by the rule of growth stated.
RECURSIVE Capacities(_, _, _)
Capacities(capacity, len, chunks) ==
  IF chunks = <<>> THEN <<>>
  ELSE LET needed == len + BLen(Head(chunks))
           next == IF needed <= capacity THEN capacity
                   ELSE IF 2 * capacity >= needed THEN 2 * capacity
                   ELSE needed + 1024
       IN  <<next>> \o Capacities(next, needed, Tail(chunks))

C20_OutputBufferGrows ==
  sink.ret = 0 =>
    LET chunks == Passed(sink.calls)
        caps == <<InitialCapacity>> \o Capacities(InitialCapacity, 0, chunks)
    IN  /\ sink.output.len = SumOfSizes(chunks)
        /\ sink.output.len <= sink.output.capacity
        /\ sink.output.capacity >= InitialCapacity
        /\ sink.output.capacity = caps[Len(caps)]
        /\ \A i \in 1..(Len(caps) - 1) : caps[i] <= caps[i + 1]
        /\ BTake(sink.output.data.bytes, sink.output.len) = Concat(chunks)

\* Both ways of growing have happened: the first chunk did not fit into
\* twice the initial capacity, a later one made the capacity double.
C20_Witness ==
  /\ sink.ret = 0
  /\ Len(Passed(sink.calls)) >= 2
  /\ BLen(Passed(sink.calls)[1]) > 2 * InitialCapacity
  /\ sink.output.capacity
       = 2 * (BLen(Passed(sink.calls)[1]) + GrowthFloor)
  /\ \E call \in DOMAIN sink.calls : Len(sink.calls[call]) = 2

(***************************************************************************)
(* C21: when the output buffer cannot be grown, the sink returns failure  *)
(* and leaves data, len and capacity as they were before the chunk that   *)
(* did not fit; the diff then ends as it does when the engine fails:      *)
(* async diff calls back with (error, null), diffSync raises, and the     *)
(* output accumulated so far is freed once.                               *)
(***************************************************************************)
\* The chunks of a call do not fit into the initial buffer.
NeedsGrowth(call, env) ==
  SumOfSizes(Passed(DiffCalls(call.a, call.b, call.flags, ContextLines,
                              env.hsize))) > InitialCapacity

\* The output before, and the buffers of, the first sink call that has a
\* chunk that does not fit.
RECURSIVE FailingCall(_, _)
FailingCall(output, calls) ==
  IF output.len + SumOfSizes(Head(calls)) > output.capacity
  THEN [output |-> output, mb |-> Head(calls)]
  ELSE FailingCall(xdiff_out_line(output, Head(calls), FALSE).output,
                   Tail(calls))

SinkFailsClean(call, env) ==
  LET f == FailingCall(NewOutput(HeapPtr(<<>>)),
                       DiffCalls(call.a, call.b, call.flags, ContextLines,
                                 env.hsize))
      r == xdiff_out_line(f.output, f.mb, TRUE)
  IN  /\ r.ret = -1
      /\ \E k \in 0..(Len(f.mb) - 1) :
           /\ r.output
                = xdiff_out_line(f.output, SubSeq(f.mb, 1, k), FALSE).output
           /\ r.output.len + BLen(f.mb[k + 1]) > r.output.capacity

\* The same surroundings with a failing engine and a working allocator.
EngineFailing(env) == [env EXCEPT !.engine = "fail_late", !.grow_fails = FALSE]

GrowthFailsIn(call, env) ==
  /\ call.fn = "xdl_diff"
  /\ env.engine = "ok"
  /\ env.grow_fails
  /\ NeedsGrowth(call, env)

C21_GrowthFailureIsEngineFailure ==
  /\ \A t \in Slots :
       (DiffWorkRan(t) /\ GrowthFailsIn(tasks[t].call, tasks[t].env)) =>
         /\ SinkFailsClean(tasks[t].call, tasks[t].env)
         /\ tasks[t].req.error_code < 0
         /\ ~Set(tasks[t].req.result)
         /\ tasks[t].req
              = bare_xdiff_diff_work(Inputs(tasks[t].req), tasks[t].mem1,
                                     EngineFailing(tasks[t].env)).req
         /\ Count(tasks[t].log, "+result") = 1
         /\ Count(tasks[t].log, "-result") = 1
         /\ Done(t) =>
              /\ tasks[t].args.err = "error"
              /\ tasks[t].args.val = NullValue
              /\ Count(tasks[t].log, "call") = 1
  /\ (sync.op = "diffSync" /\ GrowthFailsIn(sync.out.call, sync.env)) =>
       /\ SinkFailsClean(sync.out.call, sync.env)
       /\ sync.out.raised
       /\ sync.out.val = NoValue
       /\ sync.out
            = bare_xdiff_diff_sync(sync.mem0, sync.views[1], sync.views[2],
                                   sync.given, sync.options,
                                   EngineFailing(sync.env))
       /\ Count(sync.out.log, "+result") = 1
       /\ Count(sync.out.log, "-result") = 1

\* An async diff whose output filled the buffer before a chunk did not fit.
C21_Witness ==
  \E t \in Slots :
    /\ Done(t)
    /\ tasks[t].status = 0
    /\ tasks[t].work = "diff"
    /\ GrowthFailsIn(tasks[t].call, tasks[t].env)
    /\ tasks[t].env.hsize = InitialCapacity
    /\ tasks[t].args.err = "error"
    /\ Count(tasks[t].log, "-result") = 1

(***************************************************************************)
(* C22: diffSync and mergeSync run within the call.  A sync call leaves   *)
(* every request as it is, so the outstanding requests and the guards     *)
(* held do not change; it allocates no request, creates no reference,     *)
(* takes no guard and queues no work; and every output buffer it gets     *)
(* from the allocator or the engine is freed when it returns, whether it  *)
(* returns a value or raises.                                             *)
(***************************************************************************)
SubmitEvents ==
  {"+request", "+buf1", "+buf2", "+buf3", "+callback", "+ctx", "+teardown",
   "queue", "call"}

C23_ThirdBufferIffMerge ==
  \A t \in Slots :
    tasks[t].pc # "none" =>
      /\ Set(tasks[t].req.buf3) <=> tasks[t].work = "merge"
      /\ (Done(t) /\ tasks[t].args.err = "null") =>
           tasks[t].args.val.kind
             = IF tasks[t].work = "merge" THEN "object" ELSE "buffer"

(***************************************************************************)
(* C24: when the completion takes the success branch (status 0 and an     *)
(* error code that is not negative) the request has a result buffer and   *)
(* the result length is the number of valid bytes in it; and after a      *)
(* work function has run, a negative error code means that the request    *)
(* holds no result buffer.  So the success branch copies from a buffer    *)
(* that is there, and the release frees no buffer that the work function  *)
(* has freed.                                                             *)
(***************************************************************************)
WorkRan(t) == tasks[t].pc = "worked" \/ (Done(t) /\ tasks[t].status = 0)

C24_ResultPresentOnSuccess ==
  \A t \in Slots :
    /\ (WorkRan(t) /\ tasks[t].req.error_code >= 0) =>
         /\ Set(tasks[t].req.result)
         /\ tasks[t].req.result_len = BLen(tasks[t].req.result.bytes)
         /\ Count(tasks[t].log, "+result") = 1
         /\ Done(t) =>
              /\ tasks[t].args.err = "null"
              /\ BLen(tasks[t].args.val.output) = tasks[t].req.result_len
              /\ Before(tasks[t].log, "copyout", "-result")
              /\ Count(tasks[t].log, "-result") = 1
    /\ (WorkRan(t) /\ tasks[t].req.error_code < 0) =>
         /\ ~Set(tasks[t].req.result)
         /\ Count(tasks[t].log, "-result") = Count(tasks[t].log, "+result")
         /\ Count(tasks[t].log, "-result") <= 1
         /\ Done(t) => tasks[t].args.err = "error"

\* A merge delivered from its result buffer, and a diff whose work
\* function freed the output and left no result.
C24_Witness ==
  \E t \in Slots, u \in Slots :
    /\ Done(t) /\ tasks[t].status = 0 /\ tasks[t].work = "merge"
    /\ tasks[t].req.error_code >= 0
    /\ tasks[t].req.result_len > 0
    /\ Done(u) /\ tasks[u].status = 0 /\ tasks[u].work = "diff"
    /\ tasks[u].req.error_code < 0
    /\ Count(tasks[u].log, "-result") = 1

(***************************************************************************)
(* C25: for every input view, at whatever byte offset it starts in its    *)
(* backing store, the bytes handed to the engine are the bytes of the     *)
(* view at the time of the call (through the copy for diff and merge,     *)
(* directly for diffSync and mergeSync), and no byte outside the view is  *)
(* read.                                                                  *)
(***************************************************************************)
\* The content of a view: len bytes from its offset in the backing store.
ViewBytes(m, view) == HostRead(m, view.off, view.len)

\* The addresses read for a view, and the addresses of the view.
ReadOf(view) ==
  LET info == js_get_typedarray_info(view)
  IN  {InputPtr(info).addr + k : k \in 0..(info.len - 1)}
RangeOf(view) == {view.off + k : k \in 0..(view.len - 1)}

HandedOver(call, m, views, merge) ==
  /\ call.a = ViewBytes(m, views[1])
  /\ call.b = ViewBytes(m, views[2])
  /\ merge => call.c = ViewBytes(m, views[3])
  /\ \A i \in 1..(IF merge THEN 3 ELSE 2) : ReadOf(views[i]) = RangeOf(views[i])

C25_EngineGetsTheViews ==
  /\ \A t \in Slots :
       tasks[t].call.fn # "none" =>
         HandedOver(tasks[t].call, tasks[t].mem0, tasks[t].views,
                    tasks[t].work = "merge")
  /\ sync.out.call.fn # "none" =>
       HandedOver(sync.out.call, sync.mem0, sync.views, sync.op = "mergeSync")

=============================================================================
